---- MODULE Spec2Model ----
(***************************************************************************)
(* Gamma detector analysis pipeline: spectrum loading, background          *)
(* subtraction, ROI extraction, peak fitting, calibration, efficiency and  *)
(* resolution, for the on-axis analyzer (GammaDetAnalyzer.py) and the      *)
(* off-axis analyzer (OffAxisAnalyzer.py).                                 *)
(*                                                                         *)
(* Number encodings.  Energies are integers in tenths of a keV (59.5 keV   *)
(* is 595).  Emission fractions are integers in hundredths (0.36 is 36).   *)
(* A count rate count / measurement_time is the integer                    *)
(* count * (RateScale \div measurement_time), i.e. the rate in units of    *)
(* 1/RateScale per second; every measurement time used divides RateScale,  *)
(* so the encoding is exact.  Off-axis angle labels 0, 15, ... are the     *)
(* strings "0", "15", ...                                                    *)
(***************************************************************************)
EXTENDS Integers, Sequences, FiniteSets, TLC

VARIABLES
    analyzer,       \* "on" (GammaDetAnalyzer.py) or "off" (OffAxisAnalyzer.py)
    given_data,     \* which given_data tables are installed: "configured" or "test"
    files,          \* which file tree is on disk (see FileLines)
    detector,       \* the command line argument of main
    pc,             \* position of main
    error,          \* the exception that ended the run, "" if none
    spectra,        \* main: the selected spectra list
    CdTe,           \* main: loader selection flag
    bg_loaded,      \* main: load_background has returned
    count_rates_bg, \* main: the background count rates
    opened,         \* the file paths opened so far, in order
    idx,            \* main: number of spectra whose loop iteration has finished
    cur,            \* process_spectrum: locals (channels, count rates, roi_data, lists)
    isotope_data,   \* main: the record list
    slope,          \* main: calibration slope (sequence of length 0 or 1)
    intercept,      \* main: calibration intercept (sequence of length 0 or 1)
    eff,            \* calculate_detector_efficiency: locals and result
    res,            \* calculate_resolution: locals and result
    fn_args,        \* the arguments of a pure function under test
    fn_ret          \* its result

vars == <<analyzer, given_data, files, detector, pc, error, spectra, CdTe,
          bg_loaded, count_rates_bg, opened, idx, cur, isotope_data, slope,
          intercept, eff, res, fn_args, fn_ret>>

mainVars == <<analyzer, given_data, files, detector, pc, error, spectra, CdTe,
              bg_loaded, count_rates_bg, opened, idx, cur, isotope_data, slope,
              intercept, eff, res>>

(***************************************************************************)
(* Bounds of the model.                                                    *)
(***************************************************************************)
\* number of channels of a full-size instrument file
NChan == 1300
\* largest count written in a generated file
MaxCount == 3
\* longest series handed to a pure function under test
MaxLen == 3
\* largest value in a series handed to a pure function under test
MaxVal == 2

Min(a, b) == IF a < b THEN a ELSE b

\* s[lo] + ... + s[hi]
RECURSIVE SumRange(_, _, _)
SumRange(s, lo, hi) ==
    IF lo > hi THEN 0
    ELSE IF lo = hi THEN s[lo]
    ELSE SumRange(s, lo, (lo + hi) \div 2) + SumRange(s, (lo + hi) \div 2 + 1, hi)

SumSeq(s) == SumRange(s, 1, Len(s))

RECURSIVE Flatten(_)
Flatten(ss) == IF ss = <<>> THEN <<>> ELSE ss[1] \o Flatten(Tail(ss))

\* all sequences over S of length at most n
SeqsUpTo(S, n) == UNION {[1..k -> S] : k \in 0..n}

(***************************************************************************)
(* given_data.py                                                           *)
(***************************************************************************)
Roi(model, roi_start, roi_end) ==
    [model |-> model, roi_start |-> roi_start, roi_end |-> roi_end]

Spectrum(file_path, isotope, rois, measurement_time, energies) ==
    [file_path |-> file_path, isotope |-> isotope, rois |-> rois,
     measurement_time |-> measurement_time, energies |-> energies]

BGO_spectra == <<
    Spectrum("BGO/Americium_0degrees_200s_BGO_uncal.Spe", "241-Am", <<Roi("gaussian", 5, 80)>>, 200, <<595>>),
    Spectrum("BGO/Barium_0degrees_300s_BGO_uncal.Spe", "133-Ba", <<Roi("gaussian", 25, 60), Roi("double_gaussian", 120, 220)>>, 300, <<532, 3560, 3838>>),
    Spectrum("BGO/Caesium_0degrees_200s_BGO_uncal.Spe", "137-Cs", <<Roi("gaussian", 280, 400)>>, 200, <<6617>>),
    Spectrum("BGO/Cobalt_0degrees_600s_BGO_uncal.Spe", "60-Co", <<Roi("double_gaussian", 560, 770)>>, 600, <<11732, 13325>>),
    Spectrum("BGO/Background_0degrees_600s_BGO_uncal.Spe", "Background", <<Roi("-", 0, 0)>>, 600, <<>>) >>

NaI_spectra == <<
    Spectrum("NaI/Americium_0degrees_200s_NaI_uncal.Spe", "241-Am", <<Roi("gaussian", 20, 55)>>, 200, <<595>>),
    Spectrum("NaI/Barium_0degrees_300s_NaI.Spe", "133-Ba", <<Roi("gaussian", 25, 60), Roi("double_gaussian", 100, 220)>>, 300, <<532, 3560, 3838>>),
    Spectrum("NaI/Caesium_0degrees_200s_NaI_uncal.Spe", "137-Cs", <<Roi("gaussian", 240, 390)>>, 200, <<6617>>),
    Spectrum("NaI/Cobalt_0degrees_600s_NaI_uncal.Spe", "60-Co", <<Roi("double_gaussian", 450, 600)>>, 600, <<11732, 13325>>),
    Spectrum("NaI/Background_0degrees_600s_NaI.Spe", "Background", <<Roi("-", 0, 0)>>, 600, <<>>) >>

CdTe_spectra == <<
    Spectrum("CdTe/Americium_0degrees_200s_CdTe_uncal.mca", "241-Am", <<Roi("gaussian", 300, 380)>>, 200, <<595>>),
    Spectrum("CdTe/Barium_0degrees_300s_CdTe_uncal.mca", "133-Ba", <<Roi("gaussian", 50, 200), Roi("double_gaussian", 550, 740)>>, 300, <<532, 3560, 3838>>),
    Spectrum("CdTe/Caesium_0degrees_200s_CdTe_uncal.mca", "137-Cs", <<Roi("gaussian", 550, 790)>>, 200, <<6617>>),
    Spectrum("CdTe/Background_0degrees_600s_CdTe.mca", "Background", <<Roi("-", 0, 0)>>, 600, <<>>) >>

\* the seven angles of every off-axis list
Angles == <<"0", "15", "30", "45", "60", "75", "90">>

\* one off-axis list: seven 241-Am spectra with the same ROI, then the background
OffAxisList(dir, suffix, roi_start, roi_end, bg_path) ==
    [k \in 1..7 |->
        Spectrum(dir \o "/Americium_" \o Angles[k] \o "degrees_200s_" \o suffix,
                 Angles[k], <<Roi("gaussian", roi_start, roi_end)>>, 200, <<595>>)]
    \o << Spectrum(bg_path, "Background", <<Roi("-", 0, 0)>>, 600, <<>>) >>

BGO_off_axis_spectra ==
    OffAxisList("BGO_off_axis", "BGO_uncal.Spe", 0, 100,
                "BGO_off_axis/Background_0degrees_600s_BGO_uncal.Spe")

NaI_off_axis_spectra ==
    OffAxisList("NaI_off_axis", "NaI.Spe", 20, 55,
                "NaI_off_axis/Background_0degrees_600s_NaI.Spe")

CdTe_off_axis_spectra ==
    OffAxisList("CdTe_off_axis", "CdTe_uncal.mca", 1150, 1250,
                "CdTe/Background_0degrees_600s_CdTe.mca")

\* emission_fractions maps are sequences of (energy, fraction) pairs
source_data == <<
    [isotope |-> "241-Am", initial_activity |-> 50,
     emission_fractions |-> << <<595, 36>> >>],
    [isotope |-> "137-Cs", initial_activity |-> 37,
     emission_fractions |-> << <<6616, 85>> >>],
    [isotope |-> "133-Ba", initial_activity |-> 48,
     emission_fractions |-> << <<532, 2>>, <<3560, 62>>, <<3838, 9>> >>],
    [isotope |-> "60-Co", initial_activity |-> 19,
     emission_fractions |-> << <<11732, 100>>, <<13325, 100>> >>] >>


(***************************************************************************)
(* Substituted given_data tables ("test"): short spectra, an isotope that  *)
(* has no source reference, a background record that is not the last one,  *)
(* and a double-peak ROI in an off-axis list.                              *)
(***************************************************************************)
Test_bgo_spectra == <<
    Spectrum("T/am.Spe", "241-Am", <<Roi("gaussian", 1, 4)>>, 200, <<595>>),
    Spectrum("T/na.Spe", "22-Na", <<Roi("double_gaussian", 0, 3)>>, 300, <<5110, 12745>>),
    Spectrum("T/cs.Spe", "137-Cs", <<Roi("gaussian", 1, 3)>>, 200, <<6617>>),
    Spectrum("T/bg.Spe", "Background", <<Roi("-", 0, 0)>>, 600, <<>>) >>

Test_nai_spectra == <<
    Spectrum("T/am.Spe", "241-Am", <<Roi("gaussian", 1, 4)>>, 200, <<595>>),
    Spectrum("T/bg.Spe", "Background", <<Roi("-", 0, 0)>>, 600, <<>>),
    Spectrum("T/ba.Spe", "133-Ba", <<Roi("gaussian", 0, 2), Roi("double_gaussian", 1, 4)>>, 300, <<532, 3560, 3838>>) >>

Test_cdte_spectra == <<
    Spectrum("T/na.mca", "22-Na", <<Roi("gaussian", 1, 4)>>, 200, <<5110>>),
    Spectrum("T/ba.mca", "133-Ba", <<Roi("gaussian", 0, 2), Roi("double_gaussian", 1, 4)>>, 300, <<532, 3560, 3838>>),
    Spectrum("T/bg.mca", "Background", <<Roi("-", 0, 0)>>, 600, <<>>) >>

Test_bgo_off_axis_spectra == <<
    Spectrum("T/am.Spe", "0", <<Roi("gaussian", 1, 4)>>, 200, <<595>>),
    Spectrum("T/na.Spe", "15", <<Roi("double_gaussian", 0, 3)>>, 200, <<595, 595>>),
    Spectrum("T/bg.Spe", "Background", <<Roi("-", 0, 0)>>, 600, <<>>) >>

Test_nai_off_axis_spectra == <<
    Spectrum("T/bg.Spe", "Background", <<Roi("-", 0, 0)>>, 600, <<>>),
    Spectrum("T/am.Spe", "0", <<Roi("gaussian", 1, 4)>>, 200, <<595>>),
    Spectrum("T/cs.Spe", "15", <<Roi("gaussian", 1, 3)>>, 200, <<595>>) >>

Test_cdte_off_axis_spectra == <<
    Spectrum("T/na.mca", "0", <<Roi("gaussian", 1, 4)>>, 200, <<595>>),
    Spectrum("T/ba.mca", "15", <<Roi("gaussian", 0, 2)>>, 200, <<595>>),
    Spectrum("T/bg.mca", "Background", <<Roi("-", 0, 0)>>, 600, <<>>) >>

\* the tables a module-level name of given_data.py is bound to
Tables(gd, an) ==
    IF gd = "configured"
    THEN IF an = "on"
         THEN [bgo |-> BGO_spectra, nai |-> NaI_spectra, cdte |-> CdTe_spectra]
         ELSE [bgo |-> BGO_off_axis_spectra, nai |-> NaI_off_axis_spectra,
               cdte |-> CdTe_off_axis_spectra]
    ELSE IF an = "on"
         THEN [bgo |-> Test_bgo_spectra, nai |-> Test_nai_spectra,
               cdte |-> Test_cdte_spectra]
         ELSE [bgo |-> Test_bgo_off_axis_spectra, nai |-> Test_nai_off_axis_spectra,
               cdte |-> Test_cdte_off_axis_spectra]

(***************************************************************************)
(* Instrument files.  A line is a record: val is int(line.strip()) when    *)
(* line.strip().isdigit(), and -1 otherwise; text is the line's text       *)
(* ("#" for a digit-only line).                                            *)
(***************************************************************************)
Num(v) == [text |-> "#", val |-> v]
Text(t) == [text |-> t, val |-> -1]

\* line.strip().isdigit()
isdigit(line) == line.val >= 0
\* "$DATA:" in line
has_spe_start(line) == line.text \in {"$DATA:", "see $DATA: below"}
\* line.startswith("$")
startswith_dollar(line) == line.text \in {"$DATA:", "$ROI:", "$SPEC_ID:", "$MEAS_TIM:"}
\* "<<DATA>>" in line
has_mca_start(line) == line.text \in {"<<DATA>>", "see <<DATA>> below"}
\* line.startswith("<<")
startswith_angle(line) == line.text \in {"<<DATA>>", "<<END>>", "<<PMCA SPECTRUM>>"}

\* an SPE file with the given counts between its sentinels
SpeFile(counts) ==
    << Text("$SPEC_ID:"), Text("No sample description"), Text("$MEAS_TIM:"),
       Text("200 200"), Text("$DATA:"), Text("0 1023") >>
    \o [i \in 1..Len(counts) |-> Num(counts[i])]
    \o << Text("$ROI:"), Num(0) >>

\* an MCA file with the given counts between its sentinels
McaFile(counts) ==
    << Text("<<PMCA SPECTRUM>>"), Text("TAG - live_data"), Text("<<DATA>>") >>
    \o [i \in 1..Len(counts) |-> Num(counts[i])]
    \o << Text("<<END>>"), Num(0) >>

McaPaths == {"T/na.mca", "T/ba.mca", "T/bg.mca",
             "CdTe/Background_0degrees_600s_CdTe.mca"}
             \cup {CdTe_spectra[k].file_path : k \in 1..Len(CdTe_spectra)}
             \cup {CdTe_off_axis_spectra[k].file_path : k \in 1..Len(CdTe_off_axis_spectra)}

BackgroundPaths == {"T/bg.Spe", "T/bg.mca",
                    "BGO/Background_0degrees_600s_BGO_uncal.Spe",
                    "NaI/Background_0degrees_600s_NaI.Spe",
                    "CdTe/Background_0degrees_600s_CdTe.mca",
                    "BGO_off_axis/Background_0degrees_600s_BGO_uncal.Spe",
                    "NaI_off_axis/Background_0degrees_600s_NaI.Spe"}

TestPaths == {"T/am.Spe", "T/na.Spe", "T/cs.Spe", "T/ba.Spe", "T/bg.Spe",
              "T/na.mca", "T/ba.mca", "T/bg.mca"}

\* the counts of the file at a path; fs selects the length of the background
\* file: as long as the spectra ("ok"), one channel shorter ("short_bg") or
\* one channel longer ("long_bg")
FileCounts(fs, path) ==
    LET d == IF path \in BackgroundPaths
             THEN (IF fs = "short_bg" THEN -1 ELSE IF fs = "long_bg" THEN 1 ELSE 0)
             ELSE 0
    IN  IF path \in TestPaths
        THEN IF path \in BackgroundPaths
             THEN [i \in 1..(4 + d) |-> (i + 1) % 2]
             ELSE IF path \in {"T/am.Spe", "T/na.mca"} THEN <<0, 1, MaxCount, 1>>
             ELSE IF path \in {"T/na.Spe", "T/ba.mca"} THEN <<1, MaxCount, 1, 0>>
             ELSE IF path = "T/cs.Spe" THEN <<0, 0, 0, 0>>
             ELSE <<2, 1, 2, MaxCount>>
        ELSE IF path \in BackgroundPaths
             THEN [i \in 1..(NChan + d) |-> i % 2]
             ELSE [i \in 1..NChan |-> (i \div 5) % (MaxCount + 1)]

\* the lines of the file at a path
FileLines(fs, path) ==
    IF path \in McaPaths THEN McaFile(FileCounts(fs, path))
    ELSE SpeFile(FileCounts(fs, path))

(***************************************************************************)
(* data_loading_functions.py                                               *)
(***************************************************************************)
\* unit of the count-rate encoding
RateScale == 600

LoopStart == [reading_data |-> FALSE, counts |-> <<>>, done |-> FALSE]

\* one iteration of the loop of load_spe_file
spe_line(st, line) ==
    IF has_spe_start(line) THEN [st EXCEPT !.reading_data = TRUE]
    ELSE IF st.reading_data
         THEN IF isdigit(line) THEN [st EXCEPT !.counts = Append(@, line.val)]
              ELSE IF startswith_dollar(line) THEN [st EXCEPT !.done = TRUE]
              ELSE st
         ELSE st

\* one iteration of the loop of load_mca_file
mca_line(st, line) ==
    IF has_mca_start(line) THEN [st EXCEPT !.reading_data = TRUE]
    ELSE IF st.reading_data
         THEN IF isdigit(line) THEN [st EXCEPT !.counts = Append(@, line.val)]
              ELSE IF startswith_angle(line) THEN [st EXCEPT !.done = TRUE]
              ELSE st
         ELSE st

\* runs the body of "for line in file" of the SPE loader (cdte FALSE) or the
\* MCA loader (cdte TRUE) over lines[lo..hi] in order, from the loop state
\* st; a break sets st.done, after which no line is read
RECURSIVE ForLines(_, _, _, _, _)
ForLines(cdte, lines, lo, hi, st) ==
    IF lo > hi \/ st.done THEN st
    ELSE IF lo = hi THEN (IF cdte THEN mca_line(st, lines[lo]) ELSE spe_line(st, lines[lo]))
    ELSE LET mid == (lo + hi) \div 2
             left == ForLines(cdte, lines, lo, mid, st)
         IN  IF left.done THEN left
             ELSE ForLines(cdte, lines, mid + 1, hi, left)

\* count / measurement_time for every count, and the channel indices
RatesOf(counts, measurement_time) ==
    [channels |-> [i \in 1..Len(counts) |-> i - 1],
     count_rates |-> [i \in 1..Len(counts) |->
                         counts[i] * (RateScale \div measurement_time)]]

load_spe_file(lines, measurement_time) ==
    RatesOf(ForLines(FALSE, lines, 1, Len(lines), LoopStart).counts, measurement_time)

load_mca_file(lines, measurement_time) ==
    RatesOf(ForLines(TRUE, lines, 1, Len(lines), LoopStart).counts, measurement_time)

\* index of the first spectrum labelled "Background", 0 if there is none
BackgroundIndex(spec) ==
    IF \E k \in 1..Len(spec) : spec[k].isotope = "Background"
    THEN CHOOSE k \in 1..Len(spec) :
            /\ spec[k].isotope = "Background"
            /\ \A j \in 1..(k - 1) : spec[j].isotope # "Background"
    ELSE 0

NoBackground == [is_none |-> TRUE, rates |-> <<>>]

\* load_background: the count rates of the first "Background" spectrum, or None
load_background(spec, cdte, fs) ==
    LET k == BackgroundIndex(spec)
    IN  IF k = 0 THEN NoBackground
        ELSE LET lines == FileLines(fs, spec[k].file_path)
                 loaded == IF cdte THEN load_mca_file(lines, spec[k].measurement_time)
                           ELSE load_spe_file(lines, spec[k].measurement_time)
             IN  [is_none |-> FALSE, rates |-> loaded.count_rates]


(***************************************************************************)
(* given_functions.py                                                      *)
(***************************************************************************)
\* the mask of the closed interval
in_closed_interval(x, xmin, xmax) ==
    [i \in 1..Len(x) |-> xmin <= x[i] /\ x[i] <= xmax]

\* in_interval: the mask that is TRUE where xmin <= x < xmax
in_interval(x, xmin, xmax) ==
    [i \in 1..Len(x) |-> xmin <= x[i] /\ x[i] < xmax]

\* arr[_mask]: the elements of arr at the positions where the mask is TRUE
Masked(arr, mask) ==
    LET sel == SelectSeq([i \in 1..Len(mask) |-> i], LAMBDA i : mask[i])
    IN  [k \in 1..Len(sel) |-> arr[sel[k]]]

filter_in_interval(x, y, xmin, xmax) ==
    IF Len(x) # Len(y)
    THEN [err |-> "ValueError", x |-> <<>>, y |-> <<>>]
    ELSE LET mask == in_interval(x, xmin, xmax)
         IN  [err |-> "", x |-> Masked(x, mask), y |-> Masked(y, mask)]

(***************************************************************************)
(* data_loading_functions.py: load_and_extract_roi                         *)
(***************************************************************************)
\* the difference without the clamp
plain_difference(a, b) == a - b

\* max(a - b, 0)
clamped_difference(a, b) == IF a - b > 0 THEN a - b ELSE 0

\* [max(a - b, 0) for a, b in zip(count_rates, count_rates_bg)]
subtract_background(count_rates, rates_bg) ==
    [i \in 1..Min(Len(count_rates), Len(rates_bg)) |->
        clamped_difference(count_rates[i], rates_bg[i])]

NoRoiData == [err |-> "", channels |-> <<>>, count_rates |-> <<>>,
              count_rates_bgsubtracted |-> <<>>, roi_data |-> <<>>]

load_and_extract_roi(lines, rois, measurement_time, bg, cdte) ==
    LET loaded == IF cdte THEN load_mca_file(lines, measurement_time)
                  ELSE load_spe_file(lines, measurement_time)
    IN  IF bg.is_none
        THEN [NoRoiData EXCEPT !.err = "TypeError"]
        ELSE LET net == subtract_background(loaded.count_rates, bg.rates)
                 filtered == [j \in 1..Len(rois) |->
                                 filter_in_interval(loaded.channels, net,
                                                    rois[j].roi_start, rois[j].roi_end)]
             IN  IF \E j \in 1..Len(rois) : filtered[j].err # ""
                 THEN [NoRoiData EXCEPT !.err = "ValueError"]
                 ELSE [err |-> "",
                       channels |-> loaded.channels,
                       count_rates |-> loaded.count_rates,
                       count_rates_bgsubtracted |-> net,
                       roi_data |-> [j \in 1..Len(rois) |->
                                        [model |-> rois[j].model,
                                         roi_channels |-> filtered[j].x,
                                         roi_net_count_rates |-> filtered[j].y]]]

(***************************************************************************)
(* given_functions.py: gaussian_initial_estimates.  The moments are kept   *)
(* as the exact sums they are quotients of: with s0 = sum(y),              *)
(* s1 = sum(x * y) and s2 = sum(x**2 * y), mu0 = s1 / s0 is the pair       *)
(* <<s1, s0>>, sig0 = sqrt(s2 / s0 - (s1 / s0)**2) is the triple           *)
(* <<s2, s1, s0>>, and a0 = s0.                                            *)
(***************************************************************************)
\* np.sum(x * y) / np.sum(y)
first_moment(x, y) ==
    <<SumSeq([i \in 1..Len(x) |-> x[i] * y[i]]), SumSeq(y)>>

\* np.sum((x - x0) ** 2 * y) / np.sum(y) with x0 = first_moment(x, y)
second_moment(x, y) ==
    <<SumSeq([i \in 1..Len(x) |-> x[i] * x[i] * y[i]]),
      SumSeq([i \in 1..Len(x) |-> x[i] * y[i]]), SumSeq(y)>>

\* (mu0, sig0, a0)
gaussian_initial_estimates(channels, counts) ==
    <<first_moment(channels, counts), second_moment(channels, counts), SumSeq(counts)>>

(***************************************************************************)
(* fit_peak.  The values the least-squares solver converges to are not     *)
(* computed: a successful fit returns any continuum and any peak           *)
(* (centroid, sigma, amplitude) of Peaks for each Gaussian of the model,   *)
(* and any call of curve_fit may raise.  curve_fit raises RuntimeError     *)
(* when the solver does not converge within maxfev calls; when the         *)
(* covariance cannot be estimated it warns and returns a covariance        *)
(* matrix filled with inf, so that perr is inf ("inf" below).              *)
(***************************************************************************)
\* number of distinct peaks a fit can return
NPeaks == 2

Peaks == {<<10 * k, k + 1, 20 * k + 30>> : k \in 1..NPeaks}

\* min(roi_net_count_rates) of a non-empty list
MinOf(s) == CHOOSE m \in {s[i] : i \in 1..Len(s)} : \A i \in 1..Len(s) : m <= s[i]

\* the number of Gaussians fit_peak fits for a model kind; 0: no fit is run
\* and the use of covariance_matrix raises UnboundLocalError
gaussians_fitted(an, model) ==
    IF an = "off" THEN 1
    ELSE IF model = "gaussian" THEN 1
    ELSE IF model = "double_gaussian" THEN 2
    ELSE 0

\* the function handed to curve_fit, also returned as fit_func
fit_func_of(an, model) ==
    IF gaussians_fitted(an, model) = 2 THEN "combined_model_double_gaussian"
    ELSE "combined_model_gaussian"

\* p0 of curve_fit: background_guess + peak_guess, or
\* background_guess + 2 * peak_guess for the double Gaussian
initial_guess_of(an, roi_channels, roi_net_count_rates, model) ==
    LET background_guess == <<0, 0, MinOf(roi_net_count_rates)>>
        peak_guess == gaussian_initial_estimates(roi_channels, roi_net_count_rates)
    IN  IF gaussians_fitted(an, model) = 2
        THEN background_guess \o peak_guess \o peak_guess
        ELSE background_guess \o peak_guess

\* sqrt(diag(covariance_matrix)) of a fit that returned
Covariances == {"finite", "inf"}

\* the outcomes of fit_peak(roi_channels, roi_net_count_rates, model)
fit_peak(an, roi_channels, roi_net_count_rates, model) ==
    LET failed == [err |-> "", popt |-> <<>>, perr |-> "", fit_func |-> "",
                   initial_guess |-> <<>>]
        fitted == [failed EXCEPT
                      !.fit_func = fit_func_of(an, model),
                      !.initial_guess = initial_guess_of(an, roi_channels,
                                                         roi_net_count_rates, model)]
    IN  IF roi_net_count_rates = <<>>
        THEN {[failed EXCEPT !.err = "ValueError"]}
        ELSE IF gaussians_fitted(an, model) = 0
        THEN {[failed EXCEPT !.err = "UnboundLocalError"]}
        ELSE {[failed EXCEPT !.err = "RuntimeError"]}
             \cup IF gaussians_fitted(an, model) = 1
                  THEN {[fitted EXCEPT !.popt = <<0, 0, 1>> \o p, !.perr = c] :
                           p \in Peaks, c \in Covariances}
                  ELSE {[fitted EXCEPT !.popt = <<0, 0, 1>> \o p \o q, !.perr = c] :
                           p \in Peaks, q \in Peaks, c \in Covariances}


(***************************************************************************)
(* State of the run                                                        *)
(***************************************************************************)
\* the locals of process_spectrum outside a call; perr, fit_func and
\* initial_guess are those of the last fit_peak call that returned
NoCall == [channels |-> <<>>, count_rates |-> <<>>, count_rates_bgsubtracted |-> <<>>,
           roi_data |-> <<>>, j |-> 0, total_roi_count_rates |-> <<>>,
           centroids |-> <<>>, sigmas |-> <<>>, amplitudes |-> <<>>,
           perr |-> "", fit_func |-> "", initial_guess |-> <<>>]

NoEff == [k |-> 0, efficiencies |-> <<>>, intrinsic_efficiencies |-> <<>>,
          energies_list |-> <<>>]

NoRes == [all_centroids |-> <<>>, all_sigmas |-> <<>>, returned |-> FALSE]

Analyzers == {"on", "off"}

\* the command line arguments tried
Detectors == {"bgo", "nai", "cdte", "BGO", "ge"}

\* the given_data tables and file trees a run starts from: the configured
\* tables with full-size files, the test tables with every file tree
Installations == {<<"configured", "ok">>} \cup ({"test"} \X {"ok", "short_bg", "long_bg"})

\* the runs whose detector main accepts
RunKeys == {<<i[1], i[2], an, d>> : i \in Installations, an \in Analyzers,
                                    d \in {"bgo", "nai", "cdte"}}

\* load_background of every run, computed once: the files on disk and the
\* tables do not change during a run
Backgrounds ==
    [r \in RunKeys |-> load_background(Tables(r[1], r[3])[r[4]], r[4] = "cdte", r[2])]

\* load_and_extract_roi for every spectrum of every run, computed once
Extracted ==
    [rk \in UNION {{<<r, k>> : k \in 1..Len(Tables(r[1], r[3])[r[4]])} : r \in RunKeys} |->
        LET r == rk[1]
            k == rk[2]
            spec == Tables(r[1], r[3])[r[4]]
        IN  IF spec[k].isotope = "Background" THEN NoRoiData
            ELSE load_and_extract_roi(FileLines(r[2], spec[k].file_path),
                                      spec[k].rois, spec[k].measurement_time,
                                      Backgrounds[r], r[4] = "cdte")]

\* load_and_extract_roi(file_path, rois, measurement_time, count_rates_bg, CdTe)
\* for spectra[k]: looked up in Extracted when the arguments are the
\* tabulated ones, computed otherwise
extract_spectrum(k) ==
    LET key == <<given_data, files, analyzer, detector>>
    IN  IF /\ key \in RunKeys
           /\ Tables(given_data, analyzer)[detector] = spectra
           /\ CdTe = (detector = "cdte")
           /\ Backgrounds[key] = count_rates_bg
        THEN Extracted[<<key, k>>]
        ELSE load_and_extract_roi(FileLines(files, spectra[k].file_path), spectra[k].rois,
                                  spectra[k].measurement_time, count_rates_bg, CdTe)

MainInit ==
    /\ analyzer \in Analyzers
    /\ \E i \in Installations : given_data = i[1] /\ files = i[2]
    /\ detector \in Detectors
    /\ pc = "main"
    /\ error = ""
    /\ spectra = <<>>
    /\ CdTe = FALSE
    /\ bg_loaded = FALSE
    /\ count_rates_bg = NoBackground
    /\ opened = <<>>
    /\ idx = 0
    /\ cur = NoCall
    /\ isotope_data = <<>>
    /\ slope = <<>>
    /\ intercept = <<>>
    /\ eff = NoEff
    /\ res = NoRes

\* an exception leaves main: nothing after the raising statement runs
Raise(e) ==
    /\ pc' = "raised"
    /\ error' = e

(***************************************************************************)
(* main: selection of the dataset                                          *)
(***************************************************************************)
\* main without its "cdte" branch
accepted_without_cdte(d) == d = "bgo" \/ d = "nai"

\* the detector names main compares its argument with
accepted(d) == d = "bgo" \/ d = "nai" \/ d = "cdte"

Main ==
    /\ pc = "main"
    /\ IF accepted(detector)
       THEN /\ spectra' = Tables(given_data, analyzer)[detector]
            /\ CdTe' = (detector = "cdte")
            /\ pc' = "load_background"
            /\ error' = error
       ELSE /\ Raise("ValueError")
            /\ UNCHANGED <<spectra, CdTe>>
    /\ UNCHANGED <<analyzer, given_data, files, detector, bg_loaded, count_rates_bg,
                   opened, idx, cur, isotope_data, slope, intercept, eff, res,
                   fn_args, fn_ret>>

\* count_rates_bg = load_background(spectra, CdTe); isotope_data = []
LoadBackground ==
    /\ pc = "load_background"
    /\ count_rates_bg' = load_background(spectra, CdTe, files)
    /\ bg_loaded' = TRUE
    /\ opened' = IF BackgroundIndex(spectra) = 0 THEN opened
                 ELSE Append(opened, spectra[BackgroundIndex(spectra)].file_path)
    /\ isotope_data' = <<>>
    /\ pc' = "process_spectrum"
    /\ UNCHANGED <<analyzer, given_data, files, detector, error, spectra, CdTe, idx,
                   cur, slope, intercept, eff, res, fn_args, fn_ret>>

(***************************************************************************)
(* process_spectrum(spectra[idx + 1], ...)                                 *)
(***************************************************************************)
\* the loop leaves one spectrum out
loop_finished_early(i, spec) == i >= Len(spec) - 1

\* "for spectrum in spectra" has run its body for every spectrum
loop_finished(i, spec) == i = Len(spec)

\* process_spectrum without its early return
never_background(spectrum) == FALSE

\* if isotope == "Background": return
is_background(spectrum) == spectrum.isotope = "Background"

\* entry of process_spectrum: return at once for the background, otherwise
\* load_and_extract_roi and the empty result lists
ProcessSpectrum ==
    /\ pc = "process_spectrum"
    /\ ~loop_finished(idx, spectra)
    /\ LET spectrum == spectra[idx + 1]
           r == extract_spectrum(idx + 1)
       IN  IF is_background(spectrum)
           THEN /\ idx' = idx + 1
                /\ UNCHANGED <<pc, error, opened, cur>>
           ELSE /\ opened' = Append(opened, spectrum.file_path)
                /\ IF r.err # ""
                   THEN /\ Raise(r.err)
                        /\ UNCHANGED <<idx, cur>>
                   ELSE /\ cur' = [NoCall EXCEPT
                                      !.channels = r.channels,
                                      !.count_rates = r.count_rates,
                                      !.count_rates_bgsubtracted = r.count_rates_bgsubtracted,
                                      !.roi_data = r.roi_data,
                                      !.j = 1]
                        /\ pc' = "fit_peak"
                        /\ UNCHANGED <<idx, error>>
    /\ UNCHANGED <<analyzer, given_data, files, detector, spectra, CdTe, bg_loaded,
                   count_rates_bg, isotope_data, slope, intercept, eff, res,
                   fn_args, fn_ret>>

\* the result lists of process_spectrum after the fit popt of a ROI
collect(an, c, model, roi_net_count_rates, popt) ==
    IF an = "off"
    THEN [c EXCEPT !.total_roi_count_rates = Append(@, SumSeq(roi_net_count_rates)),
                   !.centroids = Append(@, popt[4]),
                   !.sigmas = Append(@, popt[5]),
                   !.amplitudes = Append(@, popt[6])]
    ELSE IF model = "gaussian"
    THEN [c EXCEPT !.centroids = Append(@, popt[4]),
                   !.sigmas = Append(@, popt[5]),
                   !.amplitudes = Append(@, popt[6])]
    ELSE IF model = "double_gaussian"
    THEN [c EXCEPT !.centroids = @ \o <<popt[4], popt[7]>>,
                   !.sigmas = @ \o <<popt[5], popt[8]>>,
                   !.amplitudes = @ \o <<popt[6], popt[9]>>]
    ELSE c

\* a failed fit is recorded and the ROI loop goes on with the next ROI
skip_failed_fit(e) ==
    /\ error' = e
    /\ pc' = pc
    /\ cur' = [cur EXCEPT !.j = cur.j + 1]

\* fit_peak raises inside process_spectrum, which has no handler: the
\* exception leaves process_spectrum and main
fit_error(e) ==
    /\ Raise(e)
    /\ cur' = cur

\* one iteration of the ROI loop of process_spectrum: fit_peak, then the appends
FitPeak ==
    /\ pc = "fit_peak"
    /\ cur.j <= Len(cur.roi_data)
    /\ LET roi == cur.roi_data[cur.j]
       IN  \E f \in fit_peak(analyzer, roi.roi_channels, roi.roi_net_count_rates, roi.model) :
              IF f.err # ""
              THEN fit_error(f.err)
              ELSE /\ cur' = [collect(analyzer, cur, roi.model, roi.roi_net_count_rates, f.popt)
                                 EXCEPT !.j = cur.j + 1, !.perr = f.perr,
                                        !.fit_func = f.fit_func,
                                        !.initial_guess = f.initial_guess]
                   /\ UNCHANGED <<pc, error>>
    /\ UNCHANGED <<analyzer, given_data, files, detector, spectra, CdTe, bg_loaded,
                   count_rates_bg, opened, idx, isotope_data, slope, intercept, eff, res,
                   fn_args, fn_ret>>

\* the record process_spectrum appends; the off-axis key of the label is "degrees"
record_of(spectrum, c) ==
    [isotope |-> spectrum.isotope,
     total_roi_count_rates |-> c.total_roi_count_rates,
     centroids |-> c.centroids,
     sigmas |-> c.sigmas,
     energies |-> spectrum.energies,
     amplitudes |-> c.amplitudes]

\* end of process_spectrum: isotope_data.append({...}) and return
AppendRecord ==
    /\ pc = "fit_peak"
    /\ cur.j > Len(cur.roi_data)
    /\ isotope_data' = Append(isotope_data, record_of(spectra[idx + 1], cur))
    /\ cur' = NoCall
    /\ idx' = idx + 1
    /\ pc' = "process_spectrum"
    /\ UNCHANGED <<analyzer, given_data, files, detector, error, spectra, CdTe, bg_loaded,
                   count_rates_bg, opened, slope, intercept, eff, res, fn_args, fn_ret>>


(***************************************************************************)
(* calibrate_detector                                                      *)
(***************************************************************************)
\* number of distinct (slope, intercept) pairs the linear fit can return
NCal == 2

CalFits == {<<k, 10 - k>> : k \in 1..NCal}

\* [x for entry in isotope_data for x in entry[field]], for each list field
all_centroids_of(data) == Flatten([k \in 1..Len(data) |-> data[k].centroids])
all_sigmas_of(data) == Flatten([k \in 1..Len(data) |-> data[k].sigmas])
all_energies_of(data) == Flatten([k \in 1..Len(data) |-> data[k].energies])

\* sqrt(diag(pcov)) of the linear fit: (slope_err, intercept_err)
CalErrs == {<<0, 0>>, <<1, 2>>}

\* the branch of the diagnostic: abs(quadratic_coefficient) < 0.001 or not
Diagnostics == {"sufficient", "significant"}

NoCalibration == [err |-> "", popt |-> <<>>, perr |-> <<>>, diagnostic |-> "", ret |-> <<>>]

\* the outcomes of calibrate_detector(isotope_data): curve_fit and polyfit need
\* at least two points and as many energies as centroids; popt and perr are
\* the locals (slope, intercept) and (slope_err, intercept_err), ret is the
\* tuple of "return slope, intercept"
calibrate_detector(data) ==
    IF \/ Len(all_centroids_of(data)) < 2
       \/ Len(all_centroids_of(data)) # Len(all_energies_of(data))
    THEN {[NoCalibration EXCEPT !.err = "TypeError"]}
    ELSE {[NoCalibration EXCEPT !.popt = f, !.perr = e, !.diagnostic = d,
                                !.ret = <<f[1], f[2]>>] :
             f \in CalFits, e \in CalErrs, d \in Diagnostics}

\* slope, intercept = calibrate_detector(isotope_data), after the spectra loop
CalibrateDetector ==
    /\ pc = "process_spectrum"
    /\ loop_finished(idx, spectra)
    /\ \E c \in calibrate_detector(isotope_data) :
          IF c.err # ""
          THEN /\ Raise(c.err)
               /\ UNCHANGED <<slope, intercept>>
          ELSE /\ slope' = <<c.ret[1]>>
               /\ intercept' = <<c.ret[2]>>
               /\ pc' = "calculate_detector_efficiency"
               /\ error' = error
    /\ UNCHANGED <<analyzer, given_data, files, detector, spectra, CdTe, bg_loaded,
                   count_rates_bg, opened, idx, cur, isotope_data, eff, res,
                   fn_args, fn_ret>>

(***************************************************************************)
(* calculate_detector_efficiency                                           *)
(***************************************************************************)
\* a lookup that falls back to the first source instead of None
source_index_or_first(isotope) ==
    IF \E n \in 1..Len(source_data) : source_data[n].isotope = isotope
    THEN CHOOSE n \in 1..Len(source_data) : source_data[n].isotope = isotope
    ELSE 1

\* next((source for source in source_data if source['isotope'] == isotope), None):
\* the index of the first matching source, 0 for None
source_index(isotope) ==
    IF \E n \in 1..Len(source_data) : source_data[n].isotope = isotope
    THEN CHOOSE n \in 1..Len(source_data) :
            /\ source_data[n].isotope = isotope
            /\ \A m \in 1..(n - 1) : source_data[m].isotope # isotope
    ELSE 0

\* a lookup that takes the first listed fraction whatever the energy
first_emission_fraction(fractions, energy) ==
    IF fractions = <<>> THEN 100 ELSE fractions[1][2]

\* emission_fractions.get(energy, 1.0)
emission_fraction(fractions, energy) ==
    IF \E n \in 1..Len(fractions) : fractions[n][1] = energy
    THEN fractions[CHOOSE n \in 1..Len(fractions) : fractions[n][1] = energy][2]
    ELSE 100

\* the efficiencies of one spectrum: one entry per pair of
\* zip(energies, roi_counts), each holding the operands of
\* roi_count / (current_activity * emission_fraction)
peak_efficiencies(source_info, energies, roi_counts) ==
    [n \in 1..Min(Len(energies), Len(roi_counts)) |->
        [roi_count |-> roi_counts[n],
         source |-> source_info.isotope,
         emission_fraction |-> emission_fraction(source_info.emission_fractions,
                                                 energies[n])]]

\* the source the analyzer uses for a spectrum label: the on-axis analyzer
\* looks the label up, the off-axis analyzer always uses the 241-Am entry
source_for(an, isotope) ==
    IF an = "off" THEN source_index("241-Am") ELSE source_index(isotope)

\* the pairs of zip(spectra, [entry["amplitudes"] for entry in isotope_data])
zip_length(spec, data) == Min(Len(spec), Len(data))

\* one iteration of the loop over zip(spectra, amplitudes)
EfficiencyStep ==
    /\ pc = "calculate_detector_efficiency"
    /\ eff.k < zip_length(spectra, isotope_data)
    /\ LET spectrum == spectra[eff.k + 1]
           roi_counts == isotope_data[eff.k + 1].amplitudes
           s == source_for(analyzer, spectrum.isotope)
       IN  IF s = 0
           THEN eff' = [eff EXCEPT !.k = eff.k + 1]
           ELSE LET e == peak_efficiencies(source_data[s], spectrum.energies, roi_counts)
                IN  eff' = [k |-> eff.k + 1,
                            efficiencies |-> eff.efficiencies \o e,
                            intrinsic_efficiencies |->
                                IF analyzer = "on" THEN eff.intrinsic_efficiencies \o e
                                ELSE eff.intrinsic_efficiencies,
                            energies_list |->
                                IF analyzer = "on"
                                THEN eff.energies_list
                                     \o SubSeq(spectrum.energies, 1, Len(e))
                                ELSE eff.energies_list]
    /\ UNCHANGED <<analyzer, given_data, files, detector, pc, error, spectra, CdTe,
                   bg_loaded, count_rates_bg, opened, idx, cur, isotope_data, slope,
                   intercept, res, fn_args, fn_ret>>

\* return of calculate_detector_efficiency
EfficiencyReturn ==
    /\ pc = "calculate_detector_efficiency"
    /\ eff.k = zip_length(spectra, isotope_data)
    /\ pc' = "calculate_resolution"
    /\ UNCHANGED <<analyzer, given_data, files, detector, error, spectra, CdTe,
                   bg_loaded, count_rates_bg, opened, idx, cur, isotope_data, slope,
                   intercept, eff, res, fn_args, fn_ret>>

(***************************************************************************)
(* calculate_resolution                                                    *)
(***************************************************************************)
\* fitting_functions.resolution_function: np.sqrt(a * E**-2 + b * E**-1 + c)
\* for E > 0, kept exact as the square root of the fraction
\* (a + b * E + c * E**2) / E**2: sqrt_of is <<numerator, denominator>>
resolution_function(E, a, b, c) ==
    [sqrt_of |-> <<a + b * E + c * E * E, E * E>>]

\* a filter that also leaves out the isotopes without a source reference
excluded_or_unreferenced(isotope) == isotope = "133-Ba" \/ source_index(isotope) = 0

\* a filter that leaves no isotope out
nothing_excluded(isotope) == FALSE

\* the isotope the on-axis resolution fit leaves out
excluded_from_resolution(isotope) == isotope = "133-Ba"

\* the records the on-axis resolution is computed from
RECURSIVE resolution_records(_)
resolution_records(data) ==
    IF data = <<>> THEN <<>>
    ELSE IF excluded_from_resolution(data[1].isotope)
         THEN resolution_records(Tail(data))
         ELSE <<data[1]>> \o resolution_records(Tail(data))

\* the outcomes of calculate_resolution: the on-axis analyzer flattens the
\* kept records and fits the resolution model, which can fail; the off-axis
\* analyzer builds one array row per record, which needs rows of one length
calculate_resolution(an, data) ==
    IF an = "on"
    THEN LET kept == resolution_records(data)
             ok == [err |-> "", all_centroids |-> all_centroids_of(kept),
                    all_sigmas |-> all_sigmas_of(kept)]
         IN  IF all_centroids_of(kept) = <<>>
             THEN {[ok EXCEPT !.err = "ValueError"]}
             ELSE {ok, [ok EXCEPT !.err = "RuntimeError"]}
    ELSE LET ok == [err |-> "",
                    all_centroids |-> [k \in 1..Len(data) |-> data[k].centroids],
                    all_sigmas |-> [k \in 1..Len(data) |-> data[k].sigmas]]
         IN  IF \E k \in 1..Len(data) : Len(data[k].centroids) # Len(data[1].centroids)
             THEN {[ok EXCEPT !.err = "ValueError"]}
             ELSE {ok}

CalculateResolution ==
    /\ pc = "calculate_resolution"
    /\ \E r \in calculate_resolution(analyzer, isotope_data) :
          /\ res' = [all_centroids |-> r.all_centroids, all_sigmas |-> r.all_sigmas,
                     returned |-> r.err = ""]
          /\ IF r.err # "" THEN Raise(r.err)
             ELSE pc' = "done" /\ error' = error
    /\ UNCHANGED <<analyzer, given_data, files, detector, spectra, CdTe, bg_loaded,
                   count_rates_bg, opened, idx, cur, isotope_data, slope, intercept, eff,
                   fn_args, fn_ret>>

MainNext ==
    \/ Main
    \/ LoadBackground
    \/ ProcessSpectrum
    \/ FitPeak
    \/ AppendRecord
    \/ CalibrateDetector
    \/ EfficiencyStep
    \/ EfficiencyReturn
    \/ CalculateResolution

(***************************************************************************)
(* Pure functions applied to bounded inputs                                *)
(***************************************************************************)
NoFn == [op |-> "", x |-> <<>>, y |-> <<>>, lo |-> 0, hi |-> 0, rois |-> <<>>,
         measurement_time |-> 600, cdte |-> FALSE, isotope_data |-> <<>>,
         E |-> 1, a |-> 0, b |-> 0, c |-> 0, lines |-> <<>>]

NoRet == [returned |-> FALSE, err |-> "", x |-> <<>>, y |-> <<>>, out |-> NoRoiData,
          calibration |-> NoCalibration, value |-> resolution_function(1, 0, 0, 0)]

\* the ROI lists handed to load_and_extract_roi
FnRois == { <<>>,
            <<Roi("gaussian", 0, 2)>>,
            <<Roi("gaussian", 1, MaxLen), Roi("double_gaussian", 0, 1)>> }

\* filter_in_interval(x, y, lo, hi) for series of any two lengths
FilterCall(x, y, lo, hi) ==
    [NoFn EXCEPT !.op = "filter_in_interval", !.x = x, !.y = y, !.lo = lo, !.hi = hi]

\* load_and_extract_roi on a file holding the counts x with the background
\* rates y
ExtractCall(x, y, r, t, c) ==
    [NoFn EXCEPT !.op = "load_and_extract_roi", !.x = x, !.y = y, !.rois = r,
                 !.measurement_time = t, !.cdte = c]

\* the measurement time and the loader_type == 'CdTe' flag of the file read
FnFiles == {<<300, FALSE>>, <<600, TRUE>>}

\* a record of isotope_data as far as calibrate_detector reads it
FnRecord(centroids, energies) == [centroids |-> centroids, energies |-> energies]

\* the record lists handed to calibrate_detector: no point, one point, two
\* and three points, and a record with fewer energies than centroids
FnRecordLists ==
    { <<>>,
      <<FnRecord(<<10>>, <<595>>)>>,
      <<FnRecord(<<10>>, <<595>>), FnRecord(<<20>>, <<6617>>)>>,
      <<FnRecord(<<10>>, <<595>>), FnRecord(<<20, 30>>, <<11732, 13325>>)>>,
      <<FnRecord(<<10, 20>>, <<595>>), FnRecord(<<30>>, <<6617>>)>> }

CalibrateCall(data) == [NoFn EXCEPT !.op = "calibrate_detector", !.isotope_data = data]

\* resolution_function(E, a, b, c) as curve_fit calls it in
\* calculate_resolution: E > 0 and, by bounds=(0, np.inf), a, b, c >= 0
ResolutionCall(E, a, b, c) ==
    [NoFn EXCEPT !.op = "resolution_function", !.E = E, !.a = a, !.b = b, !.c = c]

\* the lines an SPE file and an MCA file are made of: counts, the sentinels,
\* another header and a line that is neither a count nor a header
SpeLines == {Num(1), Num(2), Text("$DATA:"), Text("$ROI:"), Text("0 1023")}
McaLines == {Num(1), Num(2), Text("<<DATA>>"), Text("<<END>>"), Text("TAG - live_data")}

\* load_spe_file (cdte FALSE) or load_mca_file (cdte TRUE) on a file of the
\* given lines
LoadCall(lines, t, c) ==
    [NoFn EXCEPT !.op = "load_file", !.lines = lines, !.measurement_time = t, !.cdte = c]

FnInit ==
    /\ \/ \E x \in SeqsUpTo(0..MaxVal, MaxLen), y \in SeqsUpTo(0..1, MaxLen),
              lo \in 0..MaxVal, hi \in 0..(MaxVal + 1) :
               fn_args = FilterCall(x, y, lo, hi)
       \/ \E x \in SeqsUpTo(0..MaxVal, MaxLen), y \in SeqsUpTo(0..MaxVal, MaxLen),
              r \in FnRois, f \in FnFiles :
               fn_args = ExtractCall(x, y, r, f[1], f[2])
       \/ \E data \in FnRecordLists : fn_args = CalibrateCall(data)
       \/ \E E \in 1..(MaxVal + 1), a \in 0..MaxVal, b \in 0..MaxVal, c \in 0..MaxVal :
               fn_args = ResolutionCall(E, a, b, c)
       \/ \E lines \in SeqsUpTo(SpeLines, MaxLen + 1) : fn_args = LoadCall(lines, 300, FALSE)
       \/ \E lines \in SeqsUpTo(McaLines, MaxLen + 1) : fn_args = LoadCall(lines, 600, TRUE)
    /\ fn_ret = NoRet
    /\ analyzer = "on"
    /\ given_data = "test"
    /\ files = "ok"
    /\ detector = ""
    /\ pc = "call"
    /\ error = ""
    /\ spectra = <<>>
    /\ CdTe = FALSE
    /\ bg_loaded = FALSE
    /\ count_rates_bg = NoBackground
    /\ opened = <<>>
    /\ idx = 0
    /\ cur = NoCall
    /\ isotope_data = <<>>
    /\ slope = <<>>
    /\ intercept = <<>>
    /\ eff = NoEff
    /\ res = NoRes

CallFilterInInterval ==
    /\ pc = "call"
    /\ fn_args.op = "filter_in_interval"
    /\ LET r == filter_in_interval(fn_args.x, fn_args.y, fn_args.lo, fn_args.hi)
       IN  fn_ret' = [NoRet EXCEPT !.returned = TRUE, !.err = r.err, !.x = r.x, !.y = r.y]
    /\ pc' = "returned"
    /\ UNCHANGED <<analyzer, given_data, files, detector, error, spectra, CdTe, bg_loaded,
                   count_rates_bg, opened, idx, cur, isotope_data, slope, intercept, eff,
                   res, fn_args>>

CallLoadAndExtractRoi ==
    /\ pc = "call"
    /\ fn_args.op = "load_and_extract_roi"
    /\ LET lines == IF fn_args.cdte THEN McaFile(fn_args.x) ELSE SpeFile(fn_args.x)
           r == load_and_extract_roi(lines, fn_args.rois, fn_args.measurement_time,
                                     [is_none |-> FALSE, rates |-> fn_args.y], fn_args.cdte)
       IN  fn_ret' = [NoRet EXCEPT !.returned = TRUE, !.err = r.err, !.out = r]
    /\ pc' = "returned"
    /\ UNCHANGED <<analyzer, given_data, files, detector, error, spectra, CdTe, bg_loaded,
                   count_rates_bg, opened, idx, cur, isotope_data, slope, intercept, eff,
                   res, fn_args>>

CallCalibrateDetector ==
    /\ pc = "call"
    /\ fn_args.op = "calibrate_detector"
    /\ \E c \in calibrate_detector(fn_args.isotope_data) :
          fn_ret' = [NoRet EXCEPT !.returned = TRUE, !.err = c.err, !.calibration = c]
    /\ pc' = "returned"
    /\ UNCHANGED <<analyzer, given_data, files, detector, error, spectra, CdTe, bg_loaded,
                   count_rates_bg, opened, idx, cur, isotope_data, slope, intercept, eff,
                   res, fn_args>>

CallResolutionFunction ==
    /\ pc = "call"
    /\ fn_args.op = "resolution_function"
    /\ fn_ret' = [NoRet EXCEPT !.returned = TRUE,
                                !.value = resolution_function(fn_args.E, fn_args.a,
                                                              fn_args.b, fn_args.c)]
    /\ pc' = "returned"
    /\ UNCHANGED <<analyzer, given_data, files, detector, error, spectra, CdTe, bg_loaded,
                   count_rates_bg, opened, idx, cur, isotope_data, slope, intercept, eff,
                   res, fn_args>>

CallLoadFile ==
    /\ pc = "call"
    /\ fn_args.op = "load_file"
    /\ LET r == IF fn_args.cdte
                THEN load_mca_file(fn_args.lines, fn_args.measurement_time)
                ELSE load_spe_file(fn_args.lines, fn_args.measurement_time)
       IN  fn_ret' = [NoRet EXCEPT !.returned = TRUE, !.x = r.channels, !.y = r.count_rates]
    /\ pc' = "returned"
    /\ UNCHANGED <<analyzer, given_data, files, detector, error, spectra, CdTe, bg_loaded,
                   count_rates_bg, opened, idx, cur, isotope_data, slope, intercept, eff,
                   res, fn_args>>

FnNext ==
    \/ CallFilterInInterval
    \/ CallLoadAndExtractRoi
    \/ CallCalibrateDetector
    \/ CallResolutionFunction
    \/ CallLoadFile

SpecFn == FnInit /\ [][FnNext]_vars

(***************************************************************************)
(* The analyzers                                                           *)
(***************************************************************************)
Init == MainInit /\ fn_args = NoFn /\ fn_ret = NoRet

Next == MainNext

Spec == Init /\ [][Next]_vars


(***************************************************************************)
(* Properties: background subtraction and ROI extraction (SpecFn)          *)
(***************************************************************************)
\* a call of load_and_extract_roi has returned or raised
ExtractDone == fn_ret.returned /\ fn_args.op = "load_and_extract_roi"

\* the spectrum series A of the call: count / measurement_time of the counts
SeriesA == [i \in 1..Len(fn_args.x) |->
               fn_args.x[i] * (RateScale \div fn_args.measurement_time)]

\* the background series B of the call
SeriesB == fn_args.y

\* C1: for a spectrum series A and a background series B of equal length N,
\* load_and_extract_roi raises nothing and its net series C has length N with
\* C[i] = A[i] - B[i] where that is positive and C[i] = 0 elsewhere; so no
\* C[i] is negative, and an all-zero B leaves every A[i] unchanged.
C1_SubtractionClamps ==
    (ExtractDone /\ Len(SeriesA) = Len(SeriesB)) =>
        LET C == fn_ret.out.count_rates_bgsubtracted
        IN  /\ fn_ret.err = ""
            /\ fn_ret.out.count_rates = SeriesA
            /\ Len(C) = Len(SeriesA)
            /\ \A i \in 1..Len(SeriesA) :
                  /\ C[i] >= 0
                  /\ SeriesA[i] >= SeriesB[i] => C[i] = SeriesA[i] - SeriesB[i]
                  /\ SeriesA[i] < SeriesB[i] => C[i] = 0
            /\ (\A i \in 1..Len(SeriesB) : SeriesB[i] = 0) => C = SeriesA

\* C1 witness: equal lengths, one channel clamped to zero and one not
C1_Witness ==
    /\ ExtractDone
    /\ Len(SeriesA) = Len(SeriesB)
    /\ \E i, k \in 1..Len(SeriesA) :
          /\ SeriesA[i] < SeriesB[i]
          /\ SeriesA[k] > SeriesB[k]
          /\ fn_ret.out.count_rates_bgsubtracted[k] > 0

\* C2: whenever the spectrum series and the background series differ in
\* length, load_and_extract_roi raises and returns no net series and no ROI
\* data.
C2_LengthMismatchRaises ==
    (ExtractDone /\ Len(SeriesA) # Len(SeriesB)) =>
        /\ fn_ret.err # ""
        /\ fn_ret.out.count_rates_bgsubtracted = <<>>
        /\ fn_ret.out.roi_data = <<>>

(***************************************************************************)
(* Properties: filter_in_interval (SpecFn)                                 *)
(***************************************************************************)
\* a call of filter_in_interval on equal-length series has returned
FilterDone ==
    /\ fn_ret.returned
    /\ fn_args.op = "filter_in_interval"
    /\ Len(fn_args.x) = Len(fn_args.y)

\* the indices of x whose element lies in [lo, hi)
InWindow == {i \in 1..Len(fn_args.x) : fn_args.lo <= fn_args.x[i] /\ fn_args.x[i] < fn_args.hi}

\* the result is exactly the elements in [lo, hi), in their original order,
\* with the y at the same indices: some strictly increasing map from result
\* positions onto InWindow carries x and y
ExactlyTheWindow ==
    /\ fn_ret.err = ""
    /\ Len(fn_ret.x) = Cardinality(InWindow)
    /\ Len(fn_ret.y) = Cardinality(InWindow)
    /\ \E f \in [1..Len(fn_ret.x) -> 1..Len(fn_args.x)] :
          /\ \A k \in 1..Len(fn_ret.x) :
                /\ f[k] \in InWindow
                /\ fn_ret.x[k] = fn_args.x[f[k]]
                /\ fn_ret.y[k] = fn_args.y[f[k]]
          /\ \A k, m \in 1..Len(fn_ret.x) : k < m => f[k] < f[m]

\* x[i] is among the returned elements
Returned(v) == \E k \in 1..Len(fn_ret.x) : fn_ret.x[k] = v

\* C3 as stated: the result is exactly the window, an element equal to hi is
\* never returned and an element equal to lo always is.
C3_LoAlwaysReturned ==
    FilterDone =>
        /\ ExactlyTheWindow
        /\ ~Returned(fn_args.hi)
        /\ \A i \in 1..Len(fn_args.x) : fn_args.x[i] = fn_args.lo => Returned(fn_args.lo)

\* C3 amended: the result is exactly the window, an element equal to hi is
\* never returned, and an element equal to lo is returned when lo < hi (for
\* hi <= lo the window is empty and nothing is returned).
C3_HalfOpenWindow ==
    FilterDone =>
        /\ ExactlyTheWindow
        /\ ~Returned(fn_args.hi)
        /\ \A i \in 1..Len(fn_args.x) :
              fn_args.x[i] = fn_args.lo => (Returned(fn_args.lo) <=> fn_args.lo < fn_args.hi)

\* C3 witness: x holds an element equal to lo, which is returned, and an
\* element equal to hi, which is not, and the order of two returned elements
\* is that of x
C3_Witness ==
    /\ FilterDone
    /\ fn_args.lo < fn_args.hi
    /\ \E i, k \in 1..Len(fn_args.x) : fn_args.x[i] = fn_args.lo /\ fn_args.x[k] = fn_args.hi
    /\ Len(fn_ret.x) = 2
    /\ fn_ret.x[1] > fn_ret.x[2]
    /\ fn_ret.y[1] # fn_ret.y[2]


(***************************************************************************)
(* Properties: the analyzers (Spec)                                        *)
(***************************************************************************)
\* the spectra among the first i of spec that are not the background
NonBackground(spec, i) ==
    SelectSeq(SubSeq(spec, 1, i), LAMBDA sp : sp.isotope # "Background")

\* the isotope has an entry in the source-reference table
Referenced(isotope) == \E n \in 1..Len(source_data) : source_data[n].isotope = isotope

\* the stages after calibration
AfterCalibration == {"calculate_detector_efficiency", "calculate_resolution", "done"}

\* C4: main accepts exactly "bgo", "nai" and "cdte"; with any other argument
\* it raises ValueError before the background is loaded, before any file is
\* opened or spectrum processed and before any record exists; with an
\* accepted argument it selects that detector's list and loads the background.
C4_OnlyThreeDetectors ==
    pc # "main" =>
        IF detector \in {"bgo", "nai", "cdte"}
        THEN /\ spectra = Tables(given_data, analyzer)[detector]
             /\ CdTe = (detector = "cdte")
             /\ pc = "raised" => bg_loaded
        ELSE /\ pc = "raised"
             /\ error = "ValueError"
             /\ ~bg_loaded
             /\ count_rates_bg = NoBackground
             /\ opened = <<>>
             /\ idx = 0
             /\ cur = NoCall
             /\ isotope_data = <<>>
             /\ spectra = <<>>

\* C4 witness: the upper-case name was rejected, and a "cdte" run went on
C4_Witness == pc = "raised" /\ detector = "BGO" /\ error = "ValueError"

\* the fit of ROI cur.j of spectrum idx + 1 has raised
FitRaised == pc = "raised" /\ cur.j > 0

\* C5: if the fit of a ROI fails the run aborts: the exception is the end of
\* the run (no step follows it, so no later ROI or spectrum is fitted), the
\* record list holds only the records of the spectra before the failing one,
\* and calibration, efficiency and resolution have not run.
C5_FitFailureAborts ==
    /\ [](error # "" => pc = "raised")
    /\ [](FitRaised =>
            /\ error # ""
            /\ idx < Len(spectra)
            /\ Len(isotope_data) = Len(NonBackground(spectra, idx))
            /\ \A k \in 1..Len(isotope_data) :
                  isotope_data[k].isotope # spectra[idx + 1].isotope
            /\ slope = <<>>
            /\ intercept = <<>>
            /\ eff = NoEff
            /\ res = NoRes)
    /\ [][pc = "raised" => UNCHANGED vars]_vars

\* C5 witness: the second ROI of a spectrum failed after an earlier spectrum
\* had produced its record
C5_Witness == FitRaised /\ cur.j = 2 /\ Len(cur.centroids) = 1 /\ Len(isotope_data) >= 1

\* C6: the background is loaded before any spectrum is processed;
\* calibration has returned only if every spectrum has been processed; and
\* efficiency and resolution run only with the slope and intercept that
\* calibration returned.
C6_StageOrder ==
    /\ (idx > 0 \/ cur # NoCall \/ isotope_data # <<>> \/ pc = "fit_peak") => bg_loaded
    /\ (slope # <<>> \/ intercept # <<>> \/ pc \in AfterCalibration) =>
          /\ idx = Len(spectra)
          /\ Len(isotope_data) = Len(NonBackground(spectra, Len(spectra)))
          /\ cur = NoCall
    /\ (eff # NoEff \/ res # NoRes \/ pc \in AfterCalibration) =>
          /\ Len(slope) = 1
          /\ Len(intercept) = 1
          /\ <<slope[1], intercept[1]>> \in CalFits

\* C6 witness: a run that went through every stage
C6_Witness == pc = "done" /\ Len(isotope_data) >= 2 /\ eff.k >= 2 /\ res.returned

FlattenOver(S, field) ==
    Flatten([k \in 1..Len(isotope_data) |->
                IF k \in S THEN isotope_data[k][field] ELSE <<>>])

\* the records whose isotope is not "133-Ba"
NotBarium == {k \in 1..Len(isotope_data) : isotope_data[k].isotope # "133-Ba"}

RECURSIVE PeaksOf(_)
PeaksOf(rois) ==
    IF rois = <<>> THEN 0
    ELSE (IF rois[1].model = "gaussian" THEN 1
          ELSE IF rois[1].model = "double_gaussian" THEN 2 ELSE 0)
         + PeaksOf(Tail(rois))

\* C9: every record has centroids, sigmas and amplitudes of one length, with
\* one entry per peak in ROI order (1 per single-peak ROI, 2 per double-peak
\* ROI), entry i of the three lists coming from the same fitted peak; for the
\* configured datasets the energies list has that length too.
C9_ListsAligned ==
    \A k \in 1..Len(isotope_data) :
        LET rec == isotope_data[k]
            sp == NonBackground(spectra, Len(spectra))[k]
        IN  /\ Len(rec.centroids) = PeaksOf(sp.rois)
            /\ Len(rec.sigmas) = PeaksOf(sp.rois)
            /\ Len(rec.amplitudes) = PeaksOf(sp.rois)
            /\ \A i \in 1..Len(rec.centroids) :
                  <<rec.centroids[i], rec.sigmas[i], rec.amplitudes[i]>> \in Peaks
            /\ given_data = "configured" => Len(rec.energies) = PeaksOf(sp.rois)

\* the labels of a sequence of spectra or records
Labels(s) == [k \in 1..Len(s) |-> s[k].isotope]

\* C10: whatever prefix of the spectra list main has processed, the record
\* list holds one record per non-background spectrum of that prefix, in
\* descriptor order; and the iteration for the "Background" spectrum opens no
\* file, fits nothing and leaves the record list unchanged.
C10_OneRecordPerSpectrum ==
    /\ [](Labels(isotope_data) = Labels(NonBackground(spectra, idx)))
    /\ [][(/\ pc = "process_spectrum"
           /\ idx < Len(spectra)
           /\ spectra[idx + 1].isotope = "Background") =>
              /\ isotope_data' = isotope_data
              /\ opened' = opened
              /\ cur' = cur
              /\ pc' = pc
              /\ error' = ""
              /\ idx' = idx + 1
      ]_vars

\* C10 witness: the background is not the last spectrum, the loop has passed
\* it and a spectrum after it, and two records exist
C10_Witness ==
    /\ pc = "process_spectrum"
    /\ \E k \in 1..Len(spectra) :
          /\ spectra[k].isotope = "Background"
          /\ k < idx
          /\ Len(isotope_data) = idx - 1
          /\ Len(isotope_data) >= 2

(***************************************************************************)
(* C11..C20                                                                *)
(***************************************************************************)
\* the solver of the fit_peak call of this step failed: curve_fit ran out of
\* its maxfev budget (RuntimeError) or could not estimate the covariance
SolverFailed ==
    /\ pc = "fit_peak"
    /\ cur.j <= Len(cur.roi_data)
    /\ \/ error' = "RuntimeError"
       \/ cur'.j = cur.j + 1 /\ cur'.perr = "inf"

\* C11: whenever the solver exceeds its iteration budget or cannot compute a
\* covariance matrix for a ROI, fit_peak returns no parameters and the
\* failure leaves process_spectrum: the run is aborted, nothing is collected
\* from the ROI, no record is appended and no other fit is tried.
C11_SolverFailureIsFatal ==
    [][SolverFailed =>
          /\ pc' = "raised"
          /\ cur'.centroids = cur.centroids
          /\ cur'.j = cur.j
          /\ isotope_data' = isotope_data
      ]_vars

\* calibrate_detector has returned without an exception
CalibrateDone ==
    fn_ret.returned /\ fn_args.op = "calibrate_detector" /\ fn_ret.err = ""

\* C12: calibrate_detector returns the slope and the intercept of the linear
\* fit together with their standard errors, whichever branch of the
\* quadratic-coefficient diagnostic is taken.
C12_ReturnsFitAndErrors ==
    CalibrateDone =>
        LET c == fn_ret.calibration
        IN  /\ c.diagnostic \in Diagnostics
            /\ c.ret = <<c.popt[1], c.popt[2], c.perr[1], c.perr[2]>>

\* the source record an iteration of the efficiency loop takes its emission
\* fractions from: the entry of the spectrum's isotope (on-axis), the 241-Am
\* entry (off-axis, whose labels are angles)
SourceUsed(sp) ==
    LET name == IF analyzer = "off" THEN "241-Am" ELSE sp.isotope
    IN  CHOOSE src \in {source_data[n] : n \in 1..Len(source_data)} : src.isotope = name

\* the energy is a key of the emission_fractions map of the source
IsKey(src, energy) ==
    \E n \in 1..Len(src.emission_fractions) : src.emission_fractions[n][1] = energy

\* the number of efficiency entries this step appends, and the q-th of them
AppendedCount ==
    IF pc = "calculate_detector_efficiency"
    THEN Len(eff'.efficiencies) - Len(eff.efficiencies)
    ELSE 0

AppendedEntry(q) == eff'.efficiencies[Len(eff.efficiencies) + q]

\* the q-th appended entry holds the value listed for the q-th energy of the
\* spectrum when that energy is a key, and 1.0 when it is not
ListedOrDefault(q) ==
    LET src == SourceUsed(spectra[eff.k + 1])
        energy == spectra[eff.k + 1].energies[q]
    IN  IF IsKey(src, energy)
        THEN <<energy, AppendedEntry(q).emission_fraction>> \in
                {src.emission_fractions[n] : n \in 1..Len(src.emission_fractions)}
        ELSE AppendedEntry(q).emission_fraction = 100

\* the q-th appended entry holds 1.0 exactly when the q-th energy is not a key
OneIffNotAKey(q) ==
    AppendedEntry(q).emission_fraction = 100
        <=> ~IsKey(SourceUsed(spectra[eff.k + 1]), spectra[eff.k + 1].energies[q])

\* C13 as stated: the emission probability used for a peak energy is the
\* value listed for it in the emission-fraction map, and it is 1.0 exactly
\* when the energy is not a key of the map.
C13_OneExactlyWhenNotAKey ==
    [][\A q \in 1..AppendedCount : ListedOrDefault(q) /\ OneIffNotAKey(q)]_vars

\* C13 amended: the emission probability used for a peak energy is the value
\* listed for it in the emission-fraction map when the energy is a key, and
\* the default 1.0 when it is not; a listed value may itself be 1.0.
C13_ListedValueOrDefault ==
    [][\A q \in 1..AppendedCount : ListedOrDefault(q)]_vars

\* C13 witness: the efficiencies hold a listed fraction below 1.0 (241-Am,
\* 0.36), a listed fraction of 1.0 (60-Co) and the default for an energy that
\* is not a key (137-Cs, 661.7)
C13_Witness ==
    /\ pc = "calculate_resolution"
    /\ \E i, j, k \in 1..Len(eff.efficiencies) :
          /\ eff.efficiencies[i].source = "241-Am"
          /\ eff.efficiencies[i].emission_fraction = 36
          /\ eff.efficiencies[j].source = "137-Cs"
          /\ eff.efficiencies[j].emission_fraction = 100
          /\ ~IsKey(source_data[2], 6617)
          /\ eff.efficiencies[k].source = "60-Co"
          /\ eff.efficiencies[k].emission_fraction = 100
          /\ IsKey(source_data[4], 11732)

\* the on-axis calculate_resolution has built its two lists
ResolutionBuilt == analyzer = "on" /\ slope # <<>> /\ pc \in {"done", "raised"}

\* C14: the on-axis resolution computation uses exactly the centroids and the
\* sigmas of the records whose isotope is not "133-Ba", in record order then
\* peak order; the two lists have one length and entry i of both comes from
\* the same fitted peak; no peak of a 133-Ba record is in them.
C14_ResolutionPointsAligned ==
    ResolutionBuilt =>
        /\ res.all_centroids = FlattenOver(NotBarium, "centroids")
        /\ res.all_sigmas = FlattenOver(NotBarium, "sigmas")
        /\ Len(res.all_sigmas) = Len(res.all_centroids)
        /\ \A i \in 1..Len(res.all_centroids) :
              \E pk \in Peaks : pk[1] = res.all_centroids[i] /\ pk[2] = res.all_sigmas[i]
        /\ Len(res.all_centroids) + Len(FlattenOver(1..Len(isotope_data) \ NotBarium, "centroids"))
              = Len(all_centroids_of(isotope_data))

\* C14 witness: a 133-Ba record with peaks was left out, and a record with two
\* different peaks was kept, after another kept record
C14_Witness ==
    /\ ResolutionBuilt
    /\ pc = "done"
    /\ \E b, k \in 1..Len(isotope_data) :
          /\ isotope_data[b].isotope = "133-Ba"
          /\ Len(isotope_data[b].centroids) >= 2
          /\ k > 1
          /\ isotope_data[k].isotope # "133-Ba"
          /\ Len(isotope_data[k].centroids) = 2
          /\ isotope_data[k].centroids[1] # isotope_data[k].centroids[2]
          /\ Len(res.all_centroids) >= 3

\* resolution_function has returned
ResolutionModelDone == fn_ret.returned /\ fn_args.op = "resolution_function"

\* C15: the model fitted to the (energy, resolution squared) pairs evaluates,
\* for every E > 0 and a, b, c >= 0, to a/E^2 + b/E + c.  With the returned
\* value sqrt(n / d) and a/E^2 + b/E + c = p / q, the two are equal exactly
\* when n * q^2 = d * p^2.
C15_ModelIsThePolynomial ==
    ResolutionModelDone =>
        LET n == fn_ret.value.sqrt_of[1]
            d == fn_ret.value.sqrt_of[2]
            E == fn_args.E
            pp == fn_args.a + fn_args.b * E + fn_args.c * E * E
            q == E * E
        IN  n * q * q = d * pp * pp

\* load_spe_file or load_mca_file has returned
LoadDone == fn_ret.returned /\ fn_args.op = "load_file"

\* the line is a start-of-data sentinel, an end sentinel, of the format read
IsStart(line) == IF fn_args.cdte THEN has_mca_start(line) ELSE has_spe_start(line)
IsEnd(line) == IF fn_args.cdte THEN startswith_angle(line) ELSE startswith_dollar(line)

\* the smallest element of a non-empty set of numbers
Least(S) == CHOOSE m \in S : \A n \in S : m <= n

\* the indices of the digit-only lines after the first start sentinel and
\* before the first end sentinel line that follows it
BetweenSentinels ==
    LET lines == fn_args.lines
        starts == {i \in 1..Len(lines) : IsStart(lines[i])}
        first == IF starts = {} THEN Len(lines) + 1 ELSE Least(starts)
        ends == {i \in 1..Len(lines) : i > first /\ IsEnd(lines[i])}
        last == IF ends = {} THEN Len(lines) + 1 ELSE Least(ends)
    IN  SelectSeq([i \in 1..Len(lines) |-> i],
                  LAMBDA i : first < i /\ i < last /\ isdigit(lines[i]))

\* C16: for any sequence of lines the loaders return as counts exactly the
\* digit-only lines after the first start-of-data sentinel and before the
\* first following end sentinel line, in file order, with the channel indices
\* 0..n-1 and the count rates count / measurement_time.
C16_CountsBetweenSentinels ==
    LoadDone =>
        /\ Len(fn_ret.x) = Len(BetweenSentinels)
        /\ Len(fn_ret.y) = Len(BetweenSentinels)
        /\ \A k \in 1..Len(fn_ret.y) :
              /\ k <= Len(BetweenSentinels)
              /\ fn_ret.x[k] = k - 1
              /\ fn_ret.y[k] = fn_args.lines[BetweenSentinels[k]].val
                                  * (RateScale \div fn_args.measurement_time)

\* the sum of a list of count rates, entry by entry
RECURSIVE Total(_)
Total(rates) == IF rates = <<>> THEN 0 ELSE rates[1] + Total(Tail(rates))

\* C17: in both analyzers the record process_spectrum appends has a
\* total_roi_count_rates list with one entry per ROI of the spectrum, in ROI
\* order, each the sum of the net count rates of that ROI.
C17_OneSumPerRoi ==
    [][(pc = "fit_peak" /\ Len(isotope_data') = Len(isotope_data) + 1) =>
          LET rec == isotope_data'[Len(isotope_data')]
          IN  /\ Len(rec.total_roi_count_rates) = Len(cur.roi_data)
              /\ Len(cur.roi_data) = Len(spectra[idx + 1].rois)
              /\ \A j \in 1..Len(rec.total_roi_count_rates) :
                    /\ j <= Len(cur.roi_data)
                    /\ rec.total_roi_count_rates[j]
                          = Total(cur.roi_data[j].roi_net_count_rates)
      ]_vars

\* the ROI whose fit has just returned
FittedRoi == cur.roi_data[cur.j - 1]

\* the moment estimate (mu0, sigma0, a0) of a ROI, with the quotients kept as
\* the sums they are made of
MomentEstimate(roi) ==
    LET x == roi.roi_channels
        y == roi.roi_net_count_rates
        s0 == SumSeq(y)
        s1 == SumSeq([i \in 1..Len(x) |-> x[i] * y[i]])
        s2 == SumSeq([i \in 1..Len(x) |-> x[i] * x[i] * y[i]])
    IN  << <<s1, s0>>, <<s2, s1, s0>>, s0 >>

\* the smallest net count rate of a ROI
MinRate(roi) ==
    CHOOSE m \in 0..(MaxCount * RateScale) :
        /\ \E i \in 1..Len(roi.roi_net_count_rates) : roi.roi_net_count_rates[i] = m
        /\ \A i \in 1..Len(roi.roi_net_count_rates) : roi.roi_net_count_rates[i] >= m

\* C18: fit_peak selects the model from the model kind of the ROI: a
\* single-peak ROI is fitted with the 6 parameters (0, 0, min ROI rate, mu0,
\* sigma0, a0), a double-peak ROI with the 9 parameters (0, 0, min ROI rate,
\* mu0, sigma0, a0, mu0, sigma0, a0).
C18_ModelFromRoiKind ==
    (pc = "fit_peak" /\ cur.j > 1) =>
        LET background == <<0, 0, MinRate(FittedRoi)>>
            peak == MomentEstimate(FittedRoi)
        IN  /\ FittedRoi.model = "gaussian" =>
                  /\ cur.fit_func = "combined_model_gaussian"
                  /\ Len(cur.initial_guess) = 6
                  /\ cur.initial_guess = background \o peak
            /\ FittedRoi.model = "double_gaussian" =>
                  /\ cur.fit_func = "combined_model_double_gaussian"
                  /\ Len(cur.initial_guess) = 9
                  /\ cur.initial_guess = background \o peak \o peak

\* the record process_spectrum built from spectra[p], a spectrum that is not
\* the background: records are appended in descriptor order, the background
\* excepted
OwnRecord(p) == isotope_data[Len(NonBackground(spectra, p))]

\* C19: wherever the "Background" entry stands in the spectra list, the
\* efficiency loop pairs every spectrum that is not the background with the
\* amplitudes of the record built from that same spectrum: the entries an
\* iteration appends hold the amplitudes of the spectrum's own record, and
\* when the loop ends every such spectrum has had its iteration.
C19_OwnAmplitudes ==
    /\ [][(/\ pc = "calculate_detector_efficiency"
           /\ eff'.k = eff.k + 1
           /\ spectra[eff.k + 1].isotope # "Background") =>
              \A q \in 1..AppendedCount :
                 /\ q <= Len(OwnRecord(eff.k + 1).amplitudes)
                 /\ AppendedEntry(q).roi_count = OwnRecord(eff.k + 1).amplitudes[q]
      ]_vars
    /\ [](pc = "calculate_resolution" =>
             \A p \in 1..Len(spectra) : spectra[p].isotope # "Background" => p <= eff.k)

\* the fractions listed in the emission_fractions map of the named source
ListedFractions(name) ==
    UNION {{source_data[n].emission_fractions[i][2] :
               i \in 1..Len(source_data[n].emission_fractions)} :
           n \in {m \in 1..Len(source_data) : source_data[m].isotope = name}}

\* C20: in a run on a configured dataset, every expected peak energy of a
\* spectrum whose isotope has a source reference is a key of that isotope's
\* emission_fractions map, and every emission probability the efficiency
\* computation has used is a listed one, never the default.
C20_ConfiguredEnergiesAreKeys ==
    (given_data = "configured" /\ pc = "calculate_resolution") =>
        /\ \A p \in 1..Len(spectra) :
              (/\ spectra[p].isotope # "Background"
               /\ (analyzer = "off" \/ Referenced(spectra[p].isotope))) =>
                  \A i \in 1..Len(spectra[p].energies) :
                     IsKey(SourceUsed(spectra[p]), spectra[p].energies[i])
        /\ \A i \in 1..Len(eff.efficiencies) :
              eff.efficiencies[i].emission_fraction
                 \in ListedFractions(eff.efficiencies[i].source)

====
